---- MODULE Spec2Model ----
(***************************************************************************)
(* Model of the image fetch pipeline of src/src/images.rs: fetch_img       *)
(* chooses between the disk cache and the network, the disk task and the   *)
(* transport callback resolve a write-once promise, and a detached thread  *)
(* persists the processed bitmap.                                          *)
(***************************************************************************)
EXTENDS Integers, Sequences, FiniteSets, TLC

\* ------------------------------------------------------------------ bounds
MaxFetch == 2
MaxSize == 2
\* Width and height of a decoded raster image, and the side of the bitmap
\* that is masked pixel by pixel.
MaxDim == 3
MaxSide == 8

\* The fetch calls, in the order they are made, the identifiers and the
\* target sizes they are made with. Fetches of one identifier are the ones
\* that share a cache entry.
Fetches == 1..MaxFetch
Urls == {"a"}
Sizes == 1..MaxSize

\* ------------------------------------------------- content types and bodies
\* A content type is the sequence of the pieces of its text, so that
\* str::starts_with is a prefix test on sequences.
CtNone == <<>>
CtHtml == <<"text/", "html">>
CtPng == <<"image/", "png">>
CtSvg == <<"image/", "svg", "+xml">>
ContentTypes == {CtNone, CtHtml, CtPng, CtSvg}

SvgPrefix == <<"image/", "svg">>
ImagePrefix == <<"image/">>

StartsWith(s, p) == Len(s) >= Len(p) /\ SubSeq(s, 1, Len(p)) = p

Garbage == [fmt |-> "garbage", w |-> 0, h |-> 0]
RasterWide == [fmt |-> "raster", w |-> 3, h |-> 2]
SvgWide == [fmt |-> "svg", w |-> 2, h |-> 1]
Bodies == {Garbage, RasterWide, SvgWide}

TransportError == [ok |-> FALSE, ct |-> CtNone, body |-> Garbage]
Responses == {TransportError} \cup [ok : {TRUE}, ct : ContentTypes, body : Bodies]

\* --------------------------------------------------------- result values
Pending == [tag |-> "Pending"]
Ok(v) == [tag |-> "Ok", val |-> v]
Err(kind, ct) == [tag |-> "Err", kind |-> kind, ct |-> ct]
IsOk(r) == r.tag = "Ok"
IsErr(r) == r.tag = "Err"

\* The key of an identifier: a function of the identifier alone.
Key(u) == <<"key", u>>
Keys == {Key(u) : u \in Urls}

\* --------------------------------------------------------- files on disk
NoFile == [kind |-> "absent"]
CorruptFile == [kind |-> "corrupt"]
ForeignFile == [kind |-> "not_rgba8"]
BitmapFile(bm) == [kind |-> "bitmap", bm |-> bm]
Exists(file) == file.kind # "absent"

\* ------------------------------------------------------ decode/processing
Min(a, b) == IF a < b THEN a ELSE b

\* ----------------------------------------------------------- pixel level
\* A pixel is <<r, g, b, a>>, each channel a u8.
Transparent == <<0, 0, 0, 0>>
Colours == {<<255, 255, 255, 255>>, <<200, 100, 50, 255>>, <<1, 2, 3, 255>>,
            <<9, 9, 9, 0>>}

\* Color32::from_rgba_unmultiplied for the pixels used here, which are opaque
\* or have alpha 0: an opaque pixel is kept, alpha 0 gives TRANSPARENT.
from_rgba_unmultiplied(c) == IF c[4] = 0 THEN Transparent ELSE c

\* (channel as f32 * distance) as u8 with distance = r - sqrt(d2) in [0, 1],
\* in doubled coordinates (side = 2r, dd = 4 d2): the largest v with
\* v <= channel * distance, that is channel * sqrt(dd) <= channel * side - 2v.
ScaleChannel(c, side, dd) ==
  Cardinality({v \in 1..c : /\ c * side - 2 * v >= 0
                            /\ (c * side - 2 * v) * (c * side - 2 * v) >= c * c * dd})

\* A mask whose fade leaves the alpha channel as it was.
round_pixel_keeping_alpha(width, pixnum, pixel) ==
  LET uy == pixnum \div width
      ux == pixnum % width
      dy == width - 2 * uy
      dx == width - 2 * ux
      dd == dx * dx + dy * dy
  IN IF dd <= width * width
       THEN IF width <= 2 \/ dd >= (width - 2) * (width - 2)
              THEN <<ScaleChannel(pixel[1], width, dd), ScaleChannel(pixel[2], width, dd),
                     ScaleChannel(pixel[3], width, dd), pixel[4]>>
              ELSE pixel
       ELSE Transparent

\* A mask whose radius is the width instead of half of it.
round_pixel_full_radius(width, pixnum, pixel) ==
  LET uy == pixnum \div width
      ux == pixnum % width
      dy == 2 * width - 2 * uy
      dx == 2 * width - 2 * ux
      dd == dx * dx + dy * dy
  IN IF dd <= 4 * width * width
       THEN IF dd >= (2 * width - 2) * (2 * width - 2)
              THEN <<ScaleChannel(pixel[1], 2 * width, dd),
                     ScaleChannel(pixel[2], 2 * width, dd),
                     ScaleChannel(pixel[3], 2 * width, dd),
                     ScaleChannel(pixel[4], 2 * width, dd)>>
              ELSE pixel
       ELSE Transparent

\* One iteration of the loop of round_image on pixel number pixnum of a
\* bitmap of the given width. With edge_radius = width / 2 the offsets are
\* kept doubled (dx = 2 x_offset, dy = 2 y_offset), so that
\* pixel_radius_squared <= edge_radius_squared is dd <= width * width and
\* distance <= 1.0 is width <= 2 or dd >= (width - 2)^2.
round_pixel(width, pixnum, pixel) ==
  LET uy == pixnum \div width
      ux == pixnum % width
      dy == width - 2 * uy
      dx == width - 2 * ux
      dd == dx * dx + dy * dy
  IN IF dd <= width * width
       THEN IF width <= 2 \/ dd >= (width - 2) * (width - 2)
              THEN <<ScaleChannel(pixel[1], width, dd), ScaleChannel(pixel[2], width, dd),
                     ScaleChannel(pixel[3], width, dd), ScaleChannel(pixel[4], width, dd)>>
              ELSE pixel
       ELSE Transparent

\* A crop that starts at the whole excess instead of half of it.
crop_rect_at_excess(w, h) ==
  LET smaller == Min(w, h)
  IN IF w > smaller
       THEN [x |-> w - smaller, y |-> 0, w |-> w - (w - smaller), h |-> h]
       ELSE IF h > smaller
         THEN [x |-> 0, y |-> h - smaller, w |-> w, h |-> h - (h - smaller)]
         ELSE [x |-> 0, y |-> 0, w |-> w, h |-> h]

\* The region process_pfp_bitmap crops: crop_imm(excess / 2, 0, ..) or
\* crop_imm(0, excess / 2, ..); the whole image when it is square.
crop_rect(w, h) ==
  LET smaller == Min(w, h)
  IN IF w > smaller
       THEN [x |-> (w - smaller) \div 2, y |-> 0, w |-> w - (w - smaller), h |-> h]
       ELSE IF h > smaller
         THEN [x |-> 0, y |-> (h - smaller) \div 2, w |-> w, h |-> h - (h - smaller)]
         ELSE [x |-> 0, y |-> 0, w |-> w, h |-> h]

\* round_image keeps the size of the bitmap and marks it masked.
round_image(bm) == [bm EXCEPT !.rounded = TRUE]

\* DynamicImage::resize keeps the aspect ratio and fits the image into
\* nwidth x nheight; a side never becomes smaller than 1.
RoundDiv(a, b) == (2 * a + b) \div (2 * b)
Max(a, b) == IF a > b THEN a ELSE b
resize(image, nwidth, nheight) ==
  IF nwidth * image.h <= nheight * image.w
    THEN [image EXCEPT !.w = nwidth,
                       !.h = Max(RoundDiv(image.h * nwidth, image.w), 1)]
    ELSE [image EXCEPT !.w = Max(RoundDiv(image.w * nheight, image.h), 1),
                       !.h = nheight]

\* process_pfp_bitmap: crop to the smaller side, resize to size x size, mask.
process_pfp_bitmap(size, image) ==
  LET smaller == Min(image.w, image.h)
      region == crop_rect(image.w, image.h)
      cropped == [image EXCEPT !.w = region.w, !.h = region.h]
      resized == resize(cropped, size, size)
  IN round_image([src |-> image, w |-> resized.w, h |-> resized.h,
                  rounded |-> FALSE])

\* load_svg_bytes_with_size with SizeHint::Size(size, size): the canvas keeps
\* the aspect ratio of the document and fits it into size x size.
CeilDiv(a, b) == (a + b - 1) \div b
load_svg(size, image) ==
  LET rw == CeilDiv(size * image.w, image.h)
  IN IF rw >= size
       THEN [src |-> image, w |-> size, h |-> CeilDiv(size * image.h, image.w),
             rounded |-> FALSE]
       ELSE [src |-> image, w |-> rw, h |-> size, rounded |-> FALSE]

\* A parse that hands every response that is not SVG to the raster decoder.
parse_img_response_any(response, size) ==
  IF StartsWith(response.ct, SvgPrefix)
    THEN [decoded |-> TRUE,
          res |-> IF response.body.fmt = "svg"
                    THEN Ok(round_image(load_svg(size, response.body)))
                    ELSE Err("Decode", CtNone)]
    ELSE [decoded |-> TRUE,
          res |-> IF response.body.fmt = "raster"
                    THEN Ok(process_pfp_bitmap(size, response.body))
                    ELSE Err("Decode", CtNone)]

\* parse_img_response: the result, and whether a decoder was run.
parse_img_response(response, size) ==
  LET content_type == response.ct
  IN IF StartsWith(content_type, SvgPrefix)
       THEN [decoded |-> TRUE,
             res |-> IF response.body.fmt = "svg"
                       THEN Ok(round_image(load_svg(size, response.body)))
                       ELSE Err("Decode", CtNone)]
       ELSE IF StartsWith(content_type, ImagePrefix)
         THEN [decoded |-> TRUE,
               res |-> IF response.body.fmt = "raster"
                         THEN Ok(process_pfp_bitmap(size, response.body))
                         ELSE Err("Decode", CtNone)]
         ELSE [decoded |-> FALSE, res |-> Err("ContentType", content_type)]

\* ------------------------------------------------------------------ state
VARIABLES
  req,       \* per fetch: the call's arguments, position and bookkeeping
  disk,      \* the cache directory: key -> file
  textures,  \* the UI context's texture registry, in order of registration
  pfp        \* one run of process_pfp_bitmap, step by step

vars == <<req, disk, textures, pfp>>

\* No run of process_pfp_bitmap is followed pixel by pixel.
PfpOff == [stage |-> "off", W |-> 0, H |-> 0, size |-> 0, colour |-> Transparent,
           crop |-> [x |-> 0, y |-> 0, w |-> 0, h |-> 0],
           bw |-> 0, bh |-> 0, pixels |-> <<>>, pixnum |-> 0]

NoBitmap == [src |-> Garbage, w |-> 0, h |-> 0, rounded |-> FALSE]

Idle == [pc |-> "idle", url |-> "a", size |-> 1, path |-> "none",
         existed |-> FALSE,
         cell |-> Pending, result |-> Pending,
         outcome |-> "none", ct |-> CtNone,
         img |-> NoBitmap, netReqs |-> 0, decodes |-> 0, texCalls |-> 0,
         wr |-> "none", repaints |-> 0]

\* Files a cache directory can hold when the program starts: entries of an
\* earlier run, a truncated entry, or a file in another pixel format.
OldBitmap == process_pfp_bitmap(1, RasterWide)
InitFiles == {NoFile, BitmapFile(OldBitmap), CorruptFile, ForeignFile}

Init ==
  /\ req = [f \in Fetches |-> Idle]
  /\ disk \in [Keys -> InitFiles]
  /\ textures = <<>>
  /\ pfp = PfpOff

Issued(f) == req[f].pc # "idle"
Set(f, r) == req' = [req EXCEPT ![f] = r]

\* ------------------------------------------------------------- fetch_img
\* fetch_img_from_disk: spawn the task; nothing else happens on the caller.
fetch_img_from_disk(f, url, size) ==
  Set(f, [Idle EXCEPT !.pc = "disk_read", !.url = url, !.size = size,
                      !.path = "disk", !.existed = Exists(disk[Key(url)])])

\* A miss that joins a request already in flight for the same url.
fetch_img_from_net_coalesced(f, url, size) ==
  Set(f, [Idle EXCEPT !.pc = "net_wait", !.url = url, !.size = size,
                      !.path = "net",
                      !.netReqs = IF \E g \in Fetches :
                                      /\ req[g].url = url /\ req[g].path = "net"
                                      /\ req[g].pc # "done"
                                    THEN 0 ELSE 1,
                      !.existed = Exists(disk[Key(url)])])

\* fetch_img_from_net: create the promise and issue the request.
fetch_img_from_net(f, url, size) ==
  Set(f, [Idle EXCEPT !.pc = "net_wait", !.url = url, !.size = size,
                      !.path = "net", !.netReqs = 1,
                      !.existed = Exists(disk[Key(url)])])

\* A fetch_img whose existence test is negated.
fetch_img_inverted(f, url, size) ==
  /\ req[f].pc = "idle"
  /\ \A g \in Fetches : g < f => Issued(g)
  /\ IF ~Exists(disk[Key(url)])
       THEN fetch_img_from_disk(f, url, size)
       ELSE fetch_img_from_net(f, url, size)
  /\ UNCHANGED <<disk, textures>>

\* A fetch_img that never looks at the cache directory.
fetch_img_unchecked(f, url, size) ==
  /\ req[f].pc = "idle"
  /\ \A g \in Fetches : g < f => Issued(g)
  /\ fetch_img_from_net(f, url, size)
  /\ UNCHANGED <<disk, textures>>

\* fetch_img: ids are handed out in order; the existence check is made here.
fetch_img(f, url, size) ==
  /\ req[f].pc = "idle"
  /\ \A g \in Fetches : g < f => Issued(g)
  /\ IF Exists(disk[Key(url)])
       THEN fetch_img_from_disk(f, url, size)
       ELSE fetch_img_from_net(f, url, size)
  /\ UNCHANGED <<disk, textures>>

\* ----------------------------------------------------------- disk task
\* fs::read and image::load_from_memory; the unwrap of as_flat_samples_u8
\* panics on a decoded image that is not 8-bit RGBA, which ends the task
\* without a send.
DiskRead(f) ==
  /\ req[f].pc = "disk_read"
  /\ \E readOk \in BOOLEAN :
       LET file == disk[Key(req[f].url)]
       IN IF ~readOk \/ ~Exists(file)
            THEN Set(f, [req[f] EXCEPT !.pc = "disk_send", !.outcome = "io_error",
                                       !.result = Err("Io", CtNone)])
            ELSE IF file.kind = "corrupt"
              THEN Set(f, [req[f] EXCEPT !.pc = "disk_send",
                                         !.outcome = "decode_error",
                                         !.decodes = @ + 1,
                                         !.result = Err("Decode", CtNone)])
              ELSE IF file.kind = "not_rgba8"
                THEN Set(f, [req[f] EXCEPT !.pc = "panicked",
                                           !.outcome = "panic",
                                           !.decodes = @ + 1])
                ELSE Set(f, [req[f] EXCEPT !.pc = "disk_register",
                                           !.outcome = "decoded",
                                           !.decodes = @ + 1,
                                           !.img = file.bm])
  /\ UNCHANGED <<disk, textures>>

\* A disk task that resizes the stored bitmap to the requested size.
DiskRegisterResized(f) ==
  /\ req[f].pc = "disk_register"
  /\ textures' = Append(textures, [by |-> f, name |-> req[f].url,
                                    img |-> [req[f].img EXCEPT !.w = req[f].size,
                                                               !.h = req[f].size]])
  /\ Set(f, [req[f] EXCEPT !.pc = "disk_send", !.texCalls = @ + 1,
                            !.result = Ok(Len(textures) + 1)])
  /\ UNCHANGED disk

\* ctx.load_texture(&url, img, ..) of the disk task.
DiskRegister(f) ==
  /\ req[f].pc = "disk_register"
  /\ textures' = Append(textures, [by |-> f, name |-> req[f].url, img |-> req[f].img])
  /\ Set(f, [req[f] EXCEPT !.pc = "disk_send", !.texCalls = @ + 1,
                            !.result = Ok(Len(textures) + 1)])
  /\ UNCHANGED disk

\* A disk task that falls back to the network when the entry is unusable.
DiskSendFallingBack(f) ==
  /\ req[f].pc = "disk_send"
  /\ IF IsErr(req[f].result)
       THEN Set(f, [req[f] EXCEPT !.pc = "net_wait", !.netReqs = @ + 1])
       ELSE Set(f, [req[f] EXCEPT !.pc = "done", !.cell = req[f].result])
  /\ UNCHANGED <<disk, textures>>

\* spawn_async's sender.send(future.await): the task ends here.
DiskSend(f) ==
  /\ req[f].pc = "disk_send"
  /\ Set(f, [req[f] EXCEPT !.pc = "done", !.cell = req[f].result])
  /\ UNCHANGED <<disk, textures>>

\* ------------------------------------------------- transport callback
\* The transport calls back with the response; map_err and and_then run.
NetRespond(f) ==
  /\ req[f].pc = "net_wait"
  /\ \E response \in Responses :
       IF ~response.ok
         THEN Set(f, [req[f] EXCEPT !.pc = "net_send", !.outcome = "transport_error",
                                    !.result = Err("Generic", CtNone)])
         ELSE LET p == parse_img_response(response, req[f].size)
              IN IF IsOk(p.res)
                   THEN Set(f, [req[f] EXCEPT !.pc = "net_register",
                                              !.outcome = "decoded",
                                              !.ct = response.ct,
                                              !.decodes = @ + 1,
                                              !.img = p.res.val])
                   ELSE Set(f, [req[f] EXCEPT !.pc = "net_send",
                                              !.outcome = IF p.decoded
                                                            THEN "decode_error"
                                                            ELSE "bad_content_type",
                                              !.ct = response.ct,
                                              !.decodes = @ + (IF p.decoded THEN 1 ELSE 0),
                                              !.result = p.res])
  /\ UNCHANGED <<disk, textures>>

\* A callback that registers the bitmap twice.
NetRegisterTwice(f) ==
  /\ req[f].pc = "net_register"
  /\ textures' = Append(Append(textures, [by |-> f, name |-> req[f].url,
                                           img |-> req[f].img]),
                         [by |-> f, name |-> req[f].url, img |-> req[f].img])
  /\ Set(f, [req[f] EXCEPT !.pc = "net_spawn", !.texCalls = @ + 2,
                            !.result = Ok(Len(textures) + 2)])
  /\ UNCHANGED disk

\* A callback that spawns the write before it registers the texture.
NetRegisterAfterSpawn(f) ==
  /\ req[f].pc = "net_register"
  /\ IF req[f].wr = "none"
       THEN /\ Set(f, [req[f] EXCEPT !.wr = "running"])
            /\ UNCHANGED textures
       ELSE /\ textures' = Append(textures, [by |-> f, name |-> req[f].url,
                                              img |-> req[f].img])
            /\ Set(f, [req[f] EXCEPT !.pc = "net_send", !.texCalls = @ + 1,
                                      !.result = Ok(Len(textures) + 1)])
  /\ UNCHANGED disk

\* ctx.load_texture(&cloned_url, img.clone(), ..) inside map.
NetRegister(f) ==
  /\ req[f].pc = "net_register"
  /\ textures' = Append(textures, [by |-> f, name |-> req[f].url, img |-> req[f].img])
  /\ Set(f, [req[f] EXCEPT !.pc = "net_spawn", !.texCalls = @ + 1,
                            !.result = Ok(Len(textures) + 1)])
  /\ UNCHANGED disk

\* A callback that forgets to persist the bitmap.
NetSpawnWriteSkipped(f) ==
  /\ req[f].pc = "net_spawn"
  /\ Set(f, [req[f] EXCEPT !.pc = "net_send"])
  /\ UNCHANGED <<disk, textures>>

\* std::thread::spawn of the write; its JoinHandle is dropped.
NetSpawnWrite(f) ==
  /\ req[f].pc = "net_spawn"
  /\ Set(f, [req[f] EXCEPT !.pc = "net_send", !.wr = "running"])
  /\ UNCHANGED <<disk, textures>>

\* A send that waits for the write and reports its failure.
NetSendAfterWrite(f) ==
  /\ req[f].pc = "net_send"
  /\ req[f].wr # "running"
  /\ Set(f, [req[f] EXCEPT !.pc = "net_repaint",
                            !.cell = IF req[f].wr = "failed"
                                       THEN Err("Io", CtNone) ELSE req[f].result])
  /\ UNCHANGED <<disk, textures>>

\* A send that retries a failed request once before giving up.
NetSendRetrying(f) ==
  /\ req[f].pc = "net_send"
  /\ IF IsErr(req[f].result) /\ req[f].netReqs < 2
       THEN Set(f, [req[f] EXCEPT !.pc = "net_wait", !.cell = req[f].result,
                                  !.netReqs = @ + 1])
       ELSE Set(f, [req[f] EXCEPT !.pc = "net_repaint", !.cell = req[f].result])
  /\ UNCHANGED <<disk, textures>>

\* sender.send(handle)
NetSend(f) ==
  /\ req[f].pc = "net_send"
  /\ Set(f, [req[f] EXCEPT !.pc = "net_repaint", !.cell = req[f].result])
  /\ UNCHANGED <<disk, textures>>

\* ctx.request_repaint()
NetRepaint(f) ==
  /\ req[f].pc = "net_repaint"
  /\ Set(f, [req[f] EXCEPT !.pc = "done", !.repaints = @ + 1])
  /\ UNCHANGED <<disk, textures>>

\* ImageCache::write: the directory after a write that succeeds stores the
\* bitmap under the key of the url; a write that fails leaves it as it was.
ImageCache_write(dir, url, img, writeOk) ==
  IF writeOk THEN [dir EXCEPT ![Key(url)] = BitmapFile(img)] ELSE dir

\* The detached thread: ImageCache::write(&cache_path, &cloned_url, img);
\* its result is dropped with the thread.
WriteTask(f) ==
  /\ req[f].wr = "running"
  /\ \E writeOk \in BOOLEAN :
       /\ disk' = ImageCache_write(disk, req[f].url, req[f].img, writeOk)
       /\ Set(f, [req[f] EXCEPT !.wr = IF writeOk THEN "written" ELSE "failed"])
  /\ UNCHANGED textures

\* The caller polls the promise through a shared reference: a read of the
\* cell that leaves every part of the state as it is.
Poll(f) ==
  /\ Issued(f)
  /\ UNCHANGED vars

Next ==
  \/ \E f \in Fetches, url \in Urls, size \in Sizes :
       fetch_img(f, url, size) /\ UNCHANGED pfp
  \/ \E f \in Fetches : DiskRead(f) /\ UNCHANGED pfp
  \/ \E f \in Fetches : DiskRegister(f) /\ UNCHANGED pfp
  \/ \E f \in Fetches : DiskSend(f) /\ UNCHANGED pfp
  \/ \E f \in Fetches : NetRespond(f) /\ UNCHANGED pfp
  \/ \E f \in Fetches : NetRegister(f) /\ UNCHANGED pfp
  \/ \E f \in Fetches : NetSpawnWrite(f) /\ UNCHANGED pfp
  \/ \E f \in Fetches : NetSend(f) /\ UNCHANGED pfp
  \/ \E f \in Fetches : NetRepaint(f) /\ UNCHANGED pfp
  \/ \E f \in Fetches : WriteTask(f) /\ UNCHANGED pfp
  \/ \E f \in Fetches : Poll(f)

Spec == Init /\ [][Next]_vars

\* The runtime runs every spawned task, the transport calls every callback
\* and the OS runs every spawned thread; the caller need not call or poll.
Progress ==
  /\ \E f \in Fetches :
       \/ DiskRead(f) \/ DiskRegister(f) \/ DiskSend(f)
       \/ NetRespond(f) \/ NetRegister(f) \/ NetSpawnWrite(f)
       \/ NetSend(f) \/ NetRepaint(f) \/ WriteTask(f)
  /\ UNCHANGED pfp

FairSpec == Spec /\ WF_vars(Progress)

\* The same without any promise that a write thread ever finishes.
ProgressButWrite ==
  /\ \E f \in Fetches :
       \/ DiskRead(f) \/ DiskRegister(f) \/ DiskSend(f)
       \/ NetRespond(f) \/ NetRegister(f) \/ NetSpawnWrite(f)
       \/ NetSend(f) \/ NetRepaint(f)
  /\ UNCHANGED pfp

FairButWriteSpec == Spec /\ WF_vars(ProgressButWrite)

\* ------------------------------------------- process_pfp_bitmap, in steps
\* A decoded raster image of W x H pixels of one colour and a target size.
PfpInit ==
  /\ req = [f \in Fetches |-> Idle]
  /\ disk = [k \in Keys |-> NoFile]
  /\ textures = <<>>
  /\ \E W \in 1..MaxDim, H \in 1..MaxDim, size \in 1..MaxSide, colour \in Colours :
       pfp = [PfpOff EXCEPT !.stage = "decoded", !.W = W, !.H = H, !.size = size,
                            !.colour = colour]

\* The crop to a square of the smaller side.
PfpCrop ==
  /\ pfp.stage = "decoded"
  /\ pfp' = [pfp EXCEPT !.stage = "cropped", !.crop = crop_rect(pfp.W, pfp.H)]
  /\ UNCHANGED <<req, disk, textures>>

\* image.resize(size, size, ..), into_rgba8 and from_rgba_unmultiplied: the
\* bitmap handed to round_image. Resampling an image of one colour gives
\* that colour.
PfpResize ==
  /\ pfp.stage = "cropped"
  /\ LET resized == resize([w |-> pfp.crop.w, h |-> pfp.crop.h], pfp.size, pfp.size)
     IN pfp' = [pfp EXCEPT !.stage = "masking", !.bw = resized.w, !.bh = resized.h,
                           !.pixels = [i \in 1..(resized.w * resized.h) |->
                                         from_rgba_unmultiplied(pfp.colour)],
                           !.pixnum = 0]
  /\ UNCHANGED <<req, disk, textures>>

\* One iteration of the loop of round_image; the bitmap is returned after
\* the last one.
PfpRoundPixel ==
  /\ pfp.stage = "masking"
  /\ pfp.pixnum < Len(pfp.pixels)
  /\ pfp' = [pfp EXCEPT !.pixels[pfp.pixnum + 1] =
                           round_pixel(pfp.bw, pfp.pixnum, pfp.pixels[pfp.pixnum + 1]),
                         !.pixnum = @ + 1,
                         !.stage = IF pfp.pixnum + 1 = Len(pfp.pixels)
                                     THEN "returned" ELSE "masking"]
  /\ UNCHANGED <<req, disk, textures>>

PfpNext == PfpCrop \/ PfpResize \/ PfpRoundPixel

PfpSpec == PfpInit /\ [][PfpNext]_vars


\* ------------------------------------------------------------------ claims
Ready(r) == r.tag \in {"Ok", "Err"}

\* C1: the result cell of a fetch changes at most once, from Pending to
\* Ready, and only by the send of its own path; once Ready its value never
\* changes, whatever runs afterwards (polls included).
C1_WriteOnce ==
  [][\A f \in Fetches :
       /\ req[f].cell # req'[f].cell
            => /\ req[f].cell = Pending /\ Ready(req'[f].cell)
               /\ req[f].pc \in {"disk_send", "net_send"}
       /\ Ready(req[f].cell) => req'[f].cell = req[f].cell
    ]_vars

\* C1 witness: a disk-hit fetch and a miss-path fetch are both done, one
\* resolved Ok and the other Err.
C1_Witness ==
  \E f, g \in Fetches :
    /\ req[f].path = "disk" /\ req[g].path = "net"
    /\ req[f].pc = "done" /\ req[g].pc = "done"
    /\ {req[f].cell.tag, req[g].cell.tag} = {"Ok", "Err"}

\* C2: under fair scheduling of the tasks and callbacks, the result of every
\* issued fetch eventually becomes Ready, whatever the read, the decode of
\* the cached file and the network request yield.
C2_EventuallyReady ==
  \A f \in Fetches : Issued(f) ~> Ready(req[f].cell)

\* C3: within a miss-path request, the write thread starts, and the cache
\* directory changes, only after load_texture has produced the handle of
\* that request.
HandleProduced(f) ==
  /\ req[f].texCalls = 1
  /\ IsOk(req[f].result)
  /\ req[f].result.val \in 1..Len(textures)
  /\ textures[req[f].result.val].by = f

C3_WriteAfterHandle ==
  [][/\ \A f \in Fetches : req'[f].wr # req[f].wr => HandleProduced(f)
     /\ disk' # disk => \E f \in Fetches : WriteTask(f) /\ HandleProduced(f)
    ]_vars

\* C3 witness: the write of a request has finished while its callback has
\* not yet sent the result.
C3_Witness ==
  \E f \in Fetches :
    /\ req[f].pc = "net_send" /\ req[f].wr = "written"
    /\ HandleProduced(f)
    /\ disk[Key(req[f].url)] = BitmapFile(req[f].img)

MissDecodedRaster(f) ==
  /\ req[f].path = "net" /\ ~req[f].existed
  /\ req[f].outcome = "decoded" /\ req[f].img.src.fmt = "raster"

\* C4 as stated: when a miss-path fetch of a decodable raster image has
\* finished, and its write thread too, the result is Ok and a file exists
\* under the key of the identifier.
C4_Original ==
  \A f \in Fetches :
    MissDecodedRaster(f) /\ req[f].pc = "done" /\ req[f].wr # "running"
      => IsOk(req[f].cell) /\ Exists(disk[Key(req[f].url)])

\* C4 amended: a miss-path fetch whose response is a decodable raster image
\* eventually resolves Ok, and a file eventually appears under the key of
\* the identifier unless the background write fails.
C4_ResolvesAndPersists ==
  \A f \in Fetches :
    MissDecodedRaster(f)
      ~> /\ IsOk(req[f].cell)
         /\ req[f].wr = "failed" \/ Exists(disk[Key(req[f].url)])

\* C4 witness: such a fetch is done, resolved Ok, and the file its write
\* stored is in the directory.
C4_Witness ==
  \E f \in Fetches :
    /\ MissDecodedRaster(f) /\ req[f].pc = "done" /\ IsOk(req[f].cell)
    /\ req[f].wr = "written"
    /\ disk[Key(req[f].url)] = BitmapFile(req[f].img)

FetchStep(g) == req[g].pc = "idle" /\ req'[g].pc # "idle"

\* C5 as stated: a fetch issued after a miss-path fetch of the same
\* identifier is done with an Ok result takes the disk-hit path.
C5_Original ==
  [][\A f, g \in Fetches :
       /\ FetchStep(g) /\ req'[g].url = req[f].url
       /\ req[f].path = "net" /\ req[f].pc = "done" /\ IsOk(req[f].cell)
       => req'[g].path = "disk"
    ]_vars

Stored(u) == \E f \in Fetches : req[f].url = u /\ req[f].wr = "written"

\* C5 amended: a fetch issued after the background write of an earlier
\* miss-path fetch of the same identifier has stored the entry takes the
\* disk-hit path: it issues no network request, writes nothing, and
\* resolves Ok with a handle built from the bitmap read from the cache, or
\* Err when reading the file fails.
C5_SecondFetchHitsDisk ==
  /\ [][\A g \in Fetches :
          /\ FetchStep(g) /\ Stored(req'[g].url)
               => req'[g].path = "disk" /\ req'[g].netReqs = 0
          /\ req[g].pc = "disk_read" /\ req'[g].pc = "disk_register"
               => req'[g].img = disk[Key(req[g].url)].bm
       ]_vars
  /\ [](\A g \in Fetches :
          req[g].path = "disk" /\ Stored(req[g].url)
            => /\ req[g].netReqs = 0 /\ req[g].wr = "none"
               /\ req[g].outcome \in {"none", "decoded", "io_error"}
               /\ req[g].pc = "done" /\ req[g].outcome = "io_error"
                    => IsErr(req[g].cell)
               /\ req[g].pc = "done" /\ req[g].outcome = "decoded"
                    => /\ IsOk(req[g].cell)
                       /\ textures[req[g].cell.val] =
                            [by |-> g, name |-> req[g].url, img |-> req[g].img])
  /\ \A g \in Fetches :
       (req[g].path = "disk" /\ Stored(req[g].url)) ~> req[g].pc = "done"

\* C5 witness: the second fetch of an identifier is done on the disk-hit
\* path with a handle for the bitmap the first fetch stored.
C5_Witness ==
  \E f, g \in Fetches :
    /\ f < g /\ req[f].url = req[g].url
    /\ req[f].path = "net" /\ req[f].wr = "written" /\ req[f].pc = "done"
    /\ req[g].path = "disk" /\ req[g].pc = "done" /\ IsOk(req[g].cell)
    /\ req[g].size # req[f].size
    /\ textures[req[g].cell.val].img = req[f].img

NoTextureBy(f) == \A h \in 1..Len(textures) : textures[h].by # f

\* C6: a miss-path fetch whose request fails at transport level resolves
\* Err; one request was issued for it, no decode ran, no write thread was
\* started and no texture registered.
C6_TransportFailure ==
  \A f \in Fetches :
    /\ req[f].netReqs <= 1
    /\ req[f].outcome = "transport_error"
         => /\ req[f].netReqs = 1 /\ req[f].decodes = 0
            /\ req[f].wr = "none" /\ req[f].texCalls = 0 /\ NoTextureBy(f)
            /\ req[f].result = Err("Generic", CtNone)
            /\ req[f].pc \in {"net_send", "net_repaint", "done"}
            /\ req[f].pc # "net_send" => req[f].cell = req[f].result

\* C6 witness: a fetch whose request failed is done and resolved Err.
C6_Witness ==
  \E f \in Fetches :
    /\ req[f].outcome = "transport_error" /\ req[f].pc = "done"
    /\ IsErr(req[f].cell) /\ req[f].netReqs = 1

\* C7: a response whose content type has neither the vector nor the raster
\* prefix resolves Err carrying that content type, with no decode, no write
\* and no texture; an image content type whose bytes do not decode resolves
\* Err, with no write and no texture.
C7_BadResponse ==
  \A f \in Fetches :
    req[f].path = "net" /\ req[f].outcome \notin {"none", "transport_error"}
      => /\ ~StartsWith(req[f].ct, SvgPrefix) /\ ~StartsWith(req[f].ct, ImagePrefix)
              => /\ req[f].decodes = 0
                 /\ req[f].wr = "none" /\ req[f].texCalls = 0 /\ NoTextureBy(f)
                 /\ req[f].result = Err("ContentType", req[f].ct)
                 /\ req[f].pc \in {"net_repaint", "done"}
                      => req[f].cell = req[f].result
         /\ req[f].outcome = "decode_error"
              => /\ StartsWith(req[f].ct, ImagePrefix)
                 /\ req[f].wr = "none" /\ req[f].texCalls = 0 /\ NoTextureBy(f)
                 /\ IsErr(req[f].result)
                 /\ req[f].pc \in {"net_repaint", "done"}
                      => req[f].cell = req[f].result

\* C7 witness: one fetch is done on a text/html response and another on an
\* image response whose bytes did not decode.
C7_Witness ==
  \E f, g \in Fetches :
    /\ req[f].pc = "done" /\ req[f].ct = CtHtml
    /\ req[f].cell = Err("ContentType", CtHtml)
    /\ req[g].pc = "done" /\ req[g].outcome = "decode_error"
    /\ req[g].ct = CtPng /\ IsErr(req[g].cell)

\* C8: a repaint is requested exactly once per resolved fetch, on both
\* paths and for Ok and Err, and only after the result is Ready.
C8_RepaintOncePerResolved ==
  \A f \in Fetches :
    /\ req[f].repaints <= 1
    /\ req[f].repaints = 1 => Ready(req[f].cell)
    /\ req[f].pc = "done" => req[f].repaints = 1

\* C9: on the disk-hit path a failed read or decode of the cached file is
\* surfaced as Err; the fetch issues no network request, starts no write and
\* never changes the cache directory.
C9_DiskFailureSurfaced ==
  /\ [](\A f \in Fetches :
          req[f].path = "disk"
            => /\ req[f].netReqs = 0 /\ req[f].wr = "none"
               /\ req[f].outcome \in {"io_error", "decode_error"}
                    => /\ req[f].texCalls = 0 /\ NoTextureBy(f)
                       /\ IsErr(req[f].result)
                       /\ req[f].pc \in {"disk_send", "done"}
                       /\ req[f].pc = "done" => req[f].cell = req[f].result)
  /\ [][\A f \in Fetches :
          req[f].path = "disk" /\ req'[f] # req[f] => disk' = disk]_vars

\* C9 witness: a disk-hit fetch of a corrupt entry is done with Err and the
\* entry is still there, and another failed on the read.
C9_Witness ==
  \E f, g \in Fetches :
    /\ req[f].path = "disk" /\ req[f].pc = "done"
    /\ req[f].outcome = "decode_error" /\ IsErr(req[f].cell)
    /\ disk[Key(req[f].url)] = CorruptFile
    /\ req[g].path = "disk" /\ req[g].pc = "done"
    /\ req[g].outcome = "io_error" /\ IsErr(req[g].cell)

\* C10 as stated: an entry that exists is never changed.
C10_Original ==
  [][\A k \in Keys : Exists(disk[k]) => disk'[k] = disk[k]]_vars

\* C10 amended: an entry is created by the write of a miss-path fetch of
\* its identifier; once it exists it is never deleted, a fetch issued after
\* it exists never changes it, and it is overwritten only by the write of a
\* miss-path fetch of the same identifier issued before it existed.
C10_EntryLifecycle ==
  /\ [][\A k \in Keys :
          /\ Exists(disk[k]) => Exists(disk'[k])
          /\ disk'[k] # disk[k]
               => \E f \in Fetches :
                    /\ Key(req[f].url) = k
                    /\ req[f].path = "net" /\ ~req[f].existed
                    /\ req[f].wr = "running" /\ req'[f].wr = "written"
                    /\ disk'[k] = BitmapFile(req[f].img)
       ]_vars
  /\ [](\A f \in Fetches : req[f].existed => req[f].wr = "none")

\* C10 witness: two concurrent fetches of one identifier have both written,
\* with different bitmaps, and the entry holds one of them.
C10_Witness ==
  \E f, g \in Fetches :
    /\ f # g /\ req[f].url = req[g].url
    /\ req[f].wr = "written" /\ req[g].wr = "written"
    /\ req[f].img # req[g].img
    /\ disk[Key(req[f].url)] = BitmapFile(req[g].img)

\* C11: every bitmap the miss path registers as a texture or hands to the
\* write thread is square and has gone through round_image.
SquareAndMasked(bm) == bm.w = bm.h /\ bm.rounded

C11_SquareAndMasked ==
  /\ \A h \in 1..Len(textures) :
       req[textures[h].by].path = "net" => SquareAndMasked(textures[h].img)
  /\ \A f \in Fetches : req[f].wr # "none" => SquareAndMasked(req[f].img)

MissDecoded(f) == req[f].path = "net" /\ req[f].outcome = "decoded"

\* C13: on the miss path the write never affects the result: a step of the
\* write thread changes nothing else of its fetch, a fetch whose decode
\* succeeded is resolved Ok with its handle whatever the state of the write,
\* and it resolves even if no write ever finishes.
C13_WriteNeverSurfaces ==
  /\ [][\A f \in Fetches :
          req[f].wr = "running" /\ req'[f].wr # "running"
            => req'[f] = [req[f] EXCEPT !.wr = req'[f].wr]
       ]_vars
  /\ [](\A f \in Fetches :
          MissDecoded(f) /\ req[f].pc \in {"net_repaint", "done"}
            => IsOk(req[f].cell) /\ req[f].cell = req[f].result)
  /\ \A f \in Fetches : MissDecoded(f) ~> IsOk(req[f].cell)

\* C13 witness: one fetch is resolved Ok though its write failed, another
\* is done and resolved Ok while its write has not finished.
C13_Witness ==
  \E f, g \in Fetches :
    /\ IsOk(req[f].cell) /\ req[f].wr = "failed"
    /\ IsOk(req[g].cell) /\ req[g].wr = "running" /\ req[g].pc = "done"

\* C14: a fetch of an identifier whose entry does not exist issues its own
\* request whatever other fetches of the identifier are in flight; a step
\* of one fetch never changes another; every write that succeeds stores its
\* own bitmap under the key of the identifier, so that after the writes the
\* entry holds the bitmap of the write that came last.
C14_NoDeduplication ==
  /\ [][\A g \in Fetches :
          FetchStep(g) /\ ~Exists(disk[Key(req'[g].url)])
            => /\ req'[g].path = "net" /\ req'[g].netReqs = 1
               /\ req'[g].cell = Pending
       ]_vars
  /\ [][\A f, g \in Fetches :
          f # g /\ req'[f] # req[f] => req'[g] = req[g]]_vars
  /\ [][\A f \in Fetches :
          req[f].wr = "running" /\ req'[f].wr = "written"
            => disk'[Key(req[f].url)] = BitmapFile(req[f].img)
       ]_vars
  /\ [](\A f \in Fetches : req[f].path = "net" => req[f].netReqs = 1)
  /\ [](\A u \in Urls :
          /\ \E f \in Fetches : req[f].url = u /\ req[f].wr = "written"
          /\ \A f \in Fetches : req[f].url = u => req[f].wr # "running"
          => \E f \in Fetches :
               /\ req[f].url = u /\ req[f].wr = "written"
               /\ disk[Key(u)] = BitmapFile(req[f].img))

\* C14 witness: two fetches of one identifier each made a request, resolved
\* Ok with handles of their own and wrote different bitmaps; the entry
\* holds the first one's, whose write came last.
C14_Witness ==
  \E f, g \in Fetches :
    /\ f < g /\ req[f].url = req[g].url
    /\ req[f].netReqs = 1 /\ req[g].netReqs = 1
    /\ IsOk(req[f].cell) /\ IsOk(req[g].cell) /\ req[f].cell # req[g].cell
    /\ req[f].wr = "written" /\ req[g].wr = "written"
    /\ req[f].img # req[g].img
    /\ disk[Key(req[f].url)] = BitmapFile(req[f].img)

\* C17: fetch_img issues a request if and only if no file exists under the
\* key at the call; the path and the number of requests of a fetch never
\* change afterwards, whatever happens to the file.
C17_PathChosenOnce ==
  /\ [][\A g \in Fetches :
          FetchStep(g)
            => /\ req'[g].netReqs = 1 <=> ~Exists(disk[Key(req'[g].url)])
               /\ req'[g].path = "net" <=> ~Exists(disk[Key(req'[g].url)])
               /\ req'[g].path = "disk" <=> Exists(disk[Key(req'[g].url)])
       ]_vars
  /\ [][\A f \in Fetches :
          Issued(f) => /\ req'[f].path = req[f].path
                       /\ req'[f].netReqs = req[f].netReqs
       ]_vars
  /\ [](\A f \in Fetches :
          Issued(f) => /\ req[f].path = "net" <=> req[f].netReqs = 1
                       /\ req[f].path = "disk" <=> req[f].netReqs = 0)

\* C17 witness: a fetch that found no file is still waiting for its
\* response on the miss path although the file exists by now.
C17_Witness ==
  \E f, g \in Fetches :
    /\ f # g /\ req[f].url = req[g].url
    /\ req[f].wr = "written" /\ Exists(disk[Key(req[g].url)])
    /\ req[g].path = "net" /\ req[g].pc = "net_wait" /\ req[g].netReqs = 1

StoredBitmaps ==
  {OldBitmap} \cup {req[f].img : f \in {g \in Fetches : req[g].wr = "written"}}

TexturesBy(f) == {h \in 1..Len(textures) : textures[h].by = f}

\* C19: load_texture is called once for a fetch that resolves Ok and never
\* for one that resolves Err, on both paths; the handle in the result is
\* the one that call returned, and the call is made while the result is
\* still Pending.
C19_RegisterOncePerOk ==
  /\ [](\A f \in Fetches :
          /\ Cardinality(TexturesBy(f)) = req[f].texCalls
          /\ IsOk(req[f].cell)
               => req[f].texCalls = 1 /\ TexturesBy(f) = {req[f].cell.val}
          /\ IsErr(req[f].cell) => req[f].texCalls = 0 /\ TexturesBy(f) = {})
  /\ [][\A f \in Fetches :
          req'[f].texCalls # req[f].texCalls
            => /\ req[f].cell = Pending /\ req'[f].cell = Pending
               /\ req'[f].texCalls = 1
               /\ textures' = Append(textures, [by |-> f, name |-> req[f].url,
                                                 img |-> req[f].img])
               /\ req'[f].result = Ok(Len(textures'))
       ]_vars

\* C19 witness: a miss-path fetch and a disk-hit fetch are done and
\* resolved Ok with different handles, the only two textures there are.
C19_Witness ==
  \E f, g \in Fetches :
    /\ req[f].path = "net" /\ req[f].pc = "done" /\ IsOk(req[f].cell)
    /\ req[g].path = "disk" /\ req[g].pc = "done" /\ IsOk(req[g].cell)
    /\ req[f].cell.val # req[g].cell.val
    /\ Len(textures) = 2

\* ------------------------------------------------- claims on the bitmap
PixelAt(x, y) == pfp.pixels[y * pfp.bw + x + 1]
Original == from_rgba_unmultiplied(pfp.colour)

CentreAndCorners ==
  LET S == pfp.bw
  IN /\ PixelAt(S \div 2, S \div 2) = Original
     /\ PixelAt(0, 0) = Transparent /\ PixelAt(S - 1, 0) = Transparent
     /\ PixelAt(0, S - 1) = Transparent /\ PixelAt(S - 1, S - 1) = Transparent
     /\ pfp.bw = pfp.size /\ pfp.bh = pfp.size
     /\ Len(pfp.pixels) = pfp.size * pfp.size

\* C12 as stated: for every side S >= 1, after round_image the centre pixel
\* is unmodified, the four corner pixels are fully transparent and the
\* size of the bitmap is unchanged.
C12_Original == pfp.stage = "returned" => CentreAndCorners

\* C12 amended: the same for every side S >= 7.
C12_CentreAndCorners ==
  pfp.stage = "returned" /\ pfp.bw >= 7 => CentreAndCorners

\* C12 witness: an opaque bitmap of side 7 or more has been masked.
C12_Witness ==
  /\ pfp.stage = "returned" /\ pfp.bw >= 7 /\ pfp.bw = pfp.bh
  /\ Original # Transparent /\ CentreAndCorners

\* C15: with r = S / 2 and d2 the squared distance of the pixel from (r, r)
\* (dd = 4 d2): a pixel with d2 > r * r is fully transparent; one with
\* d2 <= r * r and r - sqrt(d2) > 1 is unmodified; any other has each of its
\* four channels replaced by the truncation of channel * (r - sqrt(d2)); no
\* channel of any pixel is increased, and a pixel the loop has not reached
\* is as it was.
MaskRule(i) ==
  LET S == pfp.bw
      x == i % S
      y == i \div S
      dd == (S - 2 * x) * (S - 2 * x) + (S - 2 * y) * (S - 2 * y)
      p == pfp.pixels[i + 1]
  IN /\ \A k \in 1..4 : p[k] <= Original[k]
     /\ dd > S * S => p = Transparent
     /\ dd <= S * S /\ S > 2 /\ dd < (S - 2) * (S - 2) => p = Original
     /\ dd <= S * S /\ (S <= 2 \/ dd >= (S - 2) * (S - 2))
          => \A k \in 1..4 :
               LET c == Original[k]
                   v == p[k]
               IN /\ c * S - 2 * v >= 0
                  /\ c * c * dd <= (c * S - 2 * v) * (c * S - 2 * v)
                  /\ \/ c * S - 2 * v - 2 < 0
                     \/ c * c * dd > (c * S - 2 * v - 2) * (c * S - 2 * v - 2)

C15_PerPixelRule ==
  pfp.stage \in {"masking", "returned"}
    => /\ pfp.bw = pfp.bh
       /\ \A i \in 0..(Len(pfp.pixels) - 1) :
            IF i < pfp.pixnum THEN MaskRule(i) ELSE pfp.pixels[i + 1] = Original

\* C15 witness: a masked bitmap has a transparent pixel, an unmodified one
\* and one whose channels were scaled to a value in between.
C15_Witness ==
  /\ pfp.stage = "returned" /\ Original[4] = 255
  /\ \E i, j, k \in 1..Len(pfp.pixels) :
       /\ pfp.pixels[i] = Transparent
       /\ pfp.pixels[j] = Original
       /\ pfp.pixels[k][4] > 0 /\ pfp.pixels[k][4] < 255

====
